---- MODULE Spec2Model ----
(***************************************************************************)
(* A model of the bedrock concurrency toolkit (src/bedrock.h,              *)
(* src/bedrock.cpp) and of the level-synchronous parallel BFS built on it  *)
(* (src/Graph.cpp).                                                        *)
(*                                                                         *)
(* Every critical section of the code (the statements executed between     *)
(* taking a std::mutex and releasing it, or blocking in a condition        *)
(* variable's wait) is one atomic step.  A condition variable is the set   *)
(* of threads blocked in its wait: notify_one takes one of them out,       *)
(* notify_all takes all of them out, and a spurious wake-up takes one out  *)
(* at any time; a thread taken out re-takes the lock and evaluates the     *)
(* wait predicate again.                                                   *)
(*                                                                         *)
(* Specifications:                                                         *)
(*   SpecQueue  UnboundedBlockingQueue driven by client threads            *)
(*   SpecPool   ThreadPool: constructor, Push, worker loops, destructor    *)
(*   SpecWG     WaitGroup driven by client threads                         *)
(*   Spec       Graph::parallelBFS on a graph built by Graph::addEdge      *)
(*   SpecMutex  Mutex<T> and its Guards driven by client threads           *)
(*   SpecChunks one level's chunking for every frontier length and worker  *)
(*              count, the closures left in the queue                      *)
(* SpecPoolFair, SpecWGFair and SpecFair add to SpecPool, SpecWG and Spec   *)
(* the weak fairness of the threads' steps that the liveness properties    *)
(* are checked under.                                                      *)
(***************************************************************************)
EXTENDS Integers, Sequences, FiniteSets, TLC

\* ------------------------------------------------------------------ bounds
\* Client threads calling the queue's Push / Pop / Stop in SpecQueue.
NumClients == 2
\* Values pushed (successfully or not) in one run of SpecQueue or SpecPool.
MaxPush == 3
\* The largest worker count a ThreadPool is constructed with (0 is included).
MaxThreads == 2
\* Threads calling the WaitGroup's Add / Done / Wait in SpecWG.
NumWGThreads == 3
\* Done calls in one run of SpecWG; also the most a group registers there.
MaxDone == 3
\* std::size_t is modelled SizeBits wide: count_ wraps at 2^SizeBits as the
\* code's wraps at 2^64.  No run registers or completes 2^SizeBits units.
SizeBits == 3
\* Vertices of the graph (Graph's constructor argument): enough for a start
\* vertex, a frontier of two and a next frontier of two.
NumVertices == 5
\* Edges the graph is given before the traversal.
MaxEdges == 4
\* The longest frontier and the largest worker count of SpecChunks.
MaxFrontier == 8
MaxWorkers == 5
\* Threads using the Mutex in SpecMutex.
NumMutexThreads == 2
\* Guard objects a thread of SpecMutex has room for.
NumGuards == 2

\* ------------------------------------------------------------ state
VARIABLES
    \* UnboundedBlockingQueue (bedrock.h:161-162)
    queue_,        \* Mutex<pair<State, Container>>: [first |-> State, second |-> Seq]
    waiter_,       \* std::condition_variable: the threads blocked in its wait
    \* client threads of SpecQueue
    cpc,           \* client -> "idle" | "pop" (inside Pop's wait)
    ret,           \* client -> value returned by its last completed call
    nextVal,       \* the next value a Push will offer (values are distinct)
    \* history of SpecQueue (read by the properties only)
    accepted,      \* values whose Push returned true, in lock order
    rejected,      \* values whose Push returned false
    popped,        \* values returned by Pop, in lock order
    stopCalled,    \* Stop has been called (with any argument)
    forceCalled,   \* Stop(FORCE_STOPPED) has been called
    stopItems,     \* the queue's contents at the latest Stop call
    \* ThreadPool (bedrock.h:187-188); its tasks_ is queue_ / waiter_ above
    numThreads,    \* the constructor's num_threads
    threads_,      \* worker -> "pop" | "run" | "exit": where its loop stands
    task,          \* worker -> the task it popped (std::optional: <<>> or <<t>>)
    mainpc,        \* the pool's owner: "live" | "join" | "destroyed"
    joinIdx,       \* the destructor's position in threads_
    executed,      \* history: the tasks executed, in order of completion
    poolRet,       \* what the latest ThreadPool::Push call gave its caller
    \* WaitGroup (bedrock.h:200-203)
    wg,            \* [count_ |-> size_t, waiters_ |-> size_t]
    cv_,           \* std::condition_variable: the threads blocked in its wait
    wgpc,          \* SpecWG's thread -> "idle" | "wait" (inside Wait's wait)
    dones,         \* history: completed Done calls
    registered,    \* history: the initial count plus the Add arguments
    waitReturns,   \* history: "none", or how the latest Wait returned
    \* Graph and parallelBFS (Graph.h:13-14, Graph.cpp:10, 45-59)
    THREAD_COUNT,  \* the static worker count
    matrix_,       \* vertex -> sequence of neighbours
    dpc,           \* the thread calling addEdge / parallelBFS: where it stands
    startVertex,   \* parallelBFS's argument
    visited,       \* vertex -> the atomic flag
    currentLevel,  \* the frontier
    nextLevel,     \* Mutex<vector<int>>: the next frontier being merged
    chunkSize,
    chunkStart,    \* the submit loop's variable
    level,         \* history: number of the loop iteration (0, 1, ...)
    casWins,       \* history: vertex -> successful compare-exchanges on its flag
    \* Mutex<T> and its Guards (bedrock.h:99-100, 75-76)
    mutex_,        \* std::mutex: 0 when unlocked, else the thread that owns it
    value_,        \* the protected T: the thread that wrote it last (0: nobody)
    guards,        \* thread -> slot -> Guard object
    mtpc,          \* thread -> [pc |-> "idle" | "lock" | "wait", g |-> slot]
    mcv            \* a condition variable waited on through Guard::AsLock()

qvars == <<queue_, waiter_>>
cvars == <<cpc, ret>>
hvars == <<nextVal, accepted, rejected, popped, stopCalled, forceCalled, stopItems>>
pvars == <<numThreads, threads_, task, mainpc, joinIdx, executed, poolRet>>
wvars == <<wg, cv_>>
wcvars == <<wgpc, dones, registered, waitReturns>>
bvars == <<THREAD_COUNT, matrix_, dpc, startVertex, visited, currentLevel, nextLevel,
           chunkSize, chunkStart, level, casWins>>
mvars == <<mutex_, value_, guards, mtpc, mcv>>
\* What the actions of one specification leave alone.
outsideQueue == <<pvars, wvars, wcvars, bvars, mvars>>
outsidePool == <<cvars, wvars, wcvars, bvars, mvars>>
outsideWG == <<qvars, cvars, hvars, pvars, bvars, mvars>>
outsideBFS == <<cvars, hvars, wcvars, mvars>>
outsideMutex == <<qvars, cvars, hvars, pvars, wvars, wcvars, bvars>>

vars == <<queue_, waiter_, cpc, ret, nextVal, accepted, rejected, popped, stopCalled,
          forceCalled, stopItems, numThreads, threads_, task, mainpc, joinIdx, executed,
          poolRet,
          wg, cv_, wgpc, dones, registered, waitReturns,
          THREAD_COUNT, matrix_, dpc, startVertex, visited, currentLevel, nextLevel,
          chunkSize, chunkStart, level, casWins,
          mutex_, value_, guards, mtpc, mcv>>

Range(s) == {s[i] : i \in DOMAIN s}

\* ------------------------------------------------ std::condition_variable
\* notify_one: one blocked thread, if any, leaves the wait.
NotifyOne(cv) == IF cv = {} THEN {cv} ELSE {cv \ {t} : t \in cv}
\* notify_all: every blocked thread leaves the wait.
NotifyNobody(cv) == cv

NotifyAll(cv) == {}

\* ------------------------------------------------ UnboundedBlockingQueue
State == {"RUNNING", "STOPPED", "FORCE_STOPPED"}

\* std::optional<T>: <<>> is std::nullopt, <<v>> holds v.
nullopt == <<>>
Some(v) == <<v>>

\* The constructor: state RUNNING, empty container.
QueueInit == [first |-> "RUNNING", second |-> <<>>]

\* Emplace's return value.
EmplaceResult(q) == q.first = "RUNNING"

\* The queue after Emplace(v).
EmplaceAtFront(q, v) ==
    IF q.first # "RUNNING" THEN q ELSE [q EXCEPT !.second = <<v>> \o @]

Emplace(q, v) ==
    IF q.first # "RUNNING" THEN q ELSE [q EXCEPT !.second = Append(@, v)]

\* The condition variable after Emplace: notify_one only when enqueued.
EmplaceNotify(q, cv) == IF q.first # "RUNNING" THEN {cv} ELSE NotifyOne(cv)

\* The queue after Stop(state): the state is assigned unconditionally.
Stop(q, state) == [q EXCEPT !.first = state]

\* Pop's wait predicate.
PopReady(q) == q.first # "RUNNING" \/ q.second # <<>>

\* Pop's return value once the wait predicate holds.
PopValueStoppedIsForced(q) ==
    IF q.first # "RUNNING" THEN nullopt
    ELSE IF q.second # <<>> THEN Some(Head(q.second))
    ELSE nullopt

PopValue(q) ==
    IF q.first = "FORCE_STOPPED" THEN nullopt
    ELSE IF q.second # <<>> THEN Some(Head(q.second))
    ELSE nullopt

\* The queue after Pop returned PopValue(q).
PopQueue(q) ==
    IF PopValue(q) # nullopt THEN [q EXCEPT !.second = Tail(@)] ELSE q

\* ------------------------------------------------ SpecQueue: client threads
Clients == 1..NumClients

\* What a client's last completed call returned: nothing yet, Push's bool,
\* Stop's void, Pop's optional.
NoRet == [op |-> "none", ok |-> FALSE, val |-> nullopt]
PushRet(b) == [op |-> "Push", ok |-> b, val |-> nullopt]
StopRet == [op |-> "Stop", ok |-> FALSE, val |-> nullopt]
PopRet(r) == [op |-> "Pop", ok |-> FALSE, val |-> r]
\* A call of a function returning void has completed: the caller has nothing.
VoidRet == [op |-> "void", ok |-> FALSE, val |-> nullopt]

\* Client c calls Push(nextVal): one critical section.
QPush(c) ==
    /\ cpc[c] = "idle"
    /\ nextVal <= MaxPush
    /\ queue_' = Emplace(queue_, nextVal)
    /\ waiter_' \in EmplaceNotify(queue_, waiter_)
    /\ ret' = [ret EXCEPT ![c] = PushRet(EmplaceResult(queue_))]
    /\ nextVal' = nextVal + 1
    /\ accepted' = IF EmplaceResult(queue_) THEN Append(accepted, nextVal) ELSE accepted
    /\ rejected' = IF EmplaceResult(queue_) THEN rejected ELSE rejected \cup {nextVal}
    /\ UNCHANGED <<cpc, popped, stopCalled, forceCalled, stopItems, outsideQueue>>

\* Client c calls Stop(state): one critical section.
QStop(c, state) ==
    /\ cpc[c] = "idle"
    /\ queue_' = Stop(queue_, state)
    /\ waiter_' = NotifyAll(waiter_)
    /\ ret' = [ret EXCEPT ![c] = StopRet]
    /\ stopCalled' = TRUE
    /\ forceCalled' = (forceCalled \/ state = "FORCE_STOPPED")
    /\ stopItems' = queue_.second
    /\ UNCHANGED <<cpc, nextVal, accepted, rejected, popped, outsideQueue>>

\* Pop's critical section from the moment the wait predicate holds.
QPopReturn(c) ==
    /\ PopReady(queue_)
    /\ queue_' = PopQueue(queue_)
    /\ ret' = [ret EXCEPT ![c] = PopRet(PopValue(queue_))]
    /\ popped' = popped \o PopValue(queue_)
    /\ cpc' = [cpc EXCEPT ![c] = "idle"]
    /\ UNCHANGED waiter_

\* Pop's wait when the predicate is false: the lock is released and c blocks.
QPopBlock(c) ==
    /\ ~PopReady(queue_)
    /\ waiter_' = waiter_ \cup {c}
    /\ cpc' = [cpc EXCEPT ![c] = "pop"]
    /\ UNCHANGED <<queue_, ret, popped>>

\* Client c calls Pop.
QPopCall(c) ==
    /\ cpc[c] = "idle"
    /\ (QPopReturn(c) \/ QPopBlock(c))
    /\ UNCHANGED <<nextVal, accepted, rejected, stopCalled, forceCalled, stopItems, outsideQueue>>

\* Client c, out of the wait (notified or spuriously woken), re-takes the lock
\* and evaluates the predicate again.
QPopWake(c) ==
    /\ cpc[c] = "pop"
    /\ c \notin waiter_
    /\ (QPopReturn(c) \/ QPopBlock(c))
    /\ UNCHANGED <<nextVal, accepted, rejected, stopCalled, forceCalled, stopItems, outsideQueue>>

\* A spurious wake-up of a thread blocked in waiter_.wait.
QSpurious(c) ==
    /\ c \in waiter_
    /\ waiter_' = waiter_ \ {c}
    /\ UNCHANGED <<queue_, cvars, hvars, outsideQueue>>

\* A queue just constructed, with no call made yet.
InitQ ==
    /\ queue_ = QueueInit
    /\ waiter_ = {}
    /\ nextVal = 1
    /\ accepted = <<>>
    /\ rejected = {}
    /\ popped = <<>>
    /\ stopCalled = FALSE
    /\ forceCalled = FALSE
    /\ stopItems = <<>>

\* No client thread.
NoClients ==
    /\ cpc = <<>>
    /\ ret = <<>>

\* No pool around the queue.
NoPool ==
    /\ numThreads = 0
    /\ threads_ = <<>>
    /\ task = <<>>
    /\ mainpc = "none"
    /\ joinIdx = 0
    /\ executed = <<>>
    /\ poolRet = NoRet

\* No WaitGroup.
NoWG ==
    /\ wg = [count_ |-> 0, waiters_ |-> 0]
    /\ cv_ = {}

NoWGThreads ==
    /\ wgpc = <<>>
    /\ dones = 0
    /\ registered = 0
    /\ waitReturns = "none"

\* No graph.
NoGraph ==
    /\ THREAD_COUNT = 0
    /\ matrix_ = <<>>
    /\ dpc = "none"
    /\ startVertex = 0
    /\ visited = <<>>
    /\ currentLevel = <<>>
    /\ nextLevel = <<>>
    /\ chunkSize = 0
    /\ chunkStart = 0
    /\ level = 0
    /\ casWins = <<>>

\* No Mutex used through explicit Guards.
NoMutex ==
    /\ mutex_ = 0
    /\ value_ = 0
    /\ guards = <<>>
    /\ mtpc = <<>>
    /\ mcv = {}

InitQueue ==
    /\ InitQ
    /\ cpc = [c \in Clients |-> "idle"]
    /\ ret = [c \in Clients |-> NoRet]
    /\ NoPool
    /\ NoWG
    /\ NoWGThreads
    /\ NoGraph
    /\ NoMutex

NextQueue ==
    \E c \in Clients :
        \/ QPush(c)
        \/ \E state \in State : QStop(c, state)
        \/ QPopCall(c)
        \/ QPopWake(c)
        \/ QSpurious(c)

SpecQueue == InitQueue /\ [][NextQueue]_vars

\* ------------------------------------------------ ThreadPool
Workers == 1..numThreads

\* What the worker's loop does with Pop's return value: a task is run, an
\* empty optional ends the loop.
AfterPop(r) == IF r = nullopt THEN "exit" ELSE "run"

\* Pop's critical section from the moment the wait predicate holds.
WPopReturn(w) ==
    /\ PopReady(queue_)
    /\ queue_' = PopQueue(queue_)
    /\ task' = [task EXCEPT ![w] = PopValue(queue_)]
    /\ threads_' = [threads_ EXCEPT ![w] = AfterPop(PopValue(queue_))]
    /\ UNCHANGED waiter_

\* Pop's wait when the predicate is false: the lock is released and w blocks.
WPopBlock(w) ==
    /\ ~PopReady(queue_)
    /\ waiter_' = waiter_ \cup {w}
    /\ UNCHANGED <<queue_, task, threads_>>

\* Worker w is in tasks_.Pop(), the lock taken, at the test of the wait
\* predicate: it has just called Pop from its loop's condition, or it is back
\* from waiter_.wait (wait(lock, pred) is while (!pred()) wait(lock)).
WPop(w) ==
    /\ threads_[w] = "pop"
    /\ w \notin waiter_
    /\ (WPopReturn(w) \/ WPopBlock(w))
    /\ UNCHANGED <<hvars, numThreads, mainpc, joinIdx, executed, poolRet>>

\* A spurious wake-up of a worker blocked in waiter_.wait.
WSpurious(w) ==
    /\ w \in waiter_
    /\ waiter_' = waiter_ \ {w}
    /\ UNCHANGED <<queue_, hvars, pvars>>

\* Worker w runs the task it popped and goes round its loop.
WRun(w) ==
    /\ threads_[w] = "run"
    /\ executed' = executed \o task[w]
    /\ task' = [task EXCEPT ![w] = nullopt]
    /\ threads_' = [threads_ EXCEPT ![w] = "pop"]
    /\ UNCHANGED <<qvars, hvars, numThreads, mainpc, joinIdx, poolRet>>

\* ThreadPool::Push(task): the queue's Push, its result dropped; the function
\* returns void.
PoolPush ==
    /\ mainpc \in {"live", "join"}
    /\ nextVal <= MaxPush
    /\ queue_' = Emplace(queue_, nextVal)
    /\ waiter_' \in EmplaceNotify(queue_, waiter_)
    /\ nextVal' = nextVal + 1
    /\ accepted' = IF EmplaceResult(queue_) THEN Append(accepted, nextVal) ELSE accepted
    /\ rejected' = IF EmplaceResult(queue_) THEN rejected ELSE rejected \cup {nextVal}
    /\ poolRet' = VoidRet
    /\ UNCHANGED <<popped, stopCalled, forceCalled, stopItems>>
    /\ UNCHANGED <<numThreads, threads_, task, mainpc, joinIdx, executed>>

\* The destructor's first statement: tasks_.Stop(), state STOPPED by default.
PoolStop ==
    /\ mainpc = "live"
    /\ queue_' = Stop(queue_, "STOPPED")
    /\ waiter_' = NotifyAll(waiter_)
    /\ stopCalled' = TRUE
    /\ stopItems' = queue_.second
    /\ mainpc' = "join"
    /\ joinIdx' = 1
    /\ UNCHANGED <<nextVal, accepted, rejected, popped, forceCalled>>
    /\ UNCHANGED <<numThreads, threads_, task, executed, poolRet>>

\* thread.join() returns once the thread's function has returned.
JoinReturnsAtOnce(w) == TRUE

JoinReturns(w) == threads_[w] = "exit"

\* One round of the destructor's loop: join threads_[joinIdx].
PoolJoin ==
    /\ mainpc = "join"
    /\ joinIdx <= numThreads
    /\ JoinReturns(joinIdx)
    /\ joinIdx' = joinIdx + 1
    /\ UNCHANGED <<qvars, hvars, numThreads, threads_, task, mainpc, executed, poolRet>>

\* The destructor returns after its loop.
PoolDestroyed ==
    /\ mainpc = "join"
    /\ joinIdx > numThreads
    /\ mainpc' = "destroyed"
    /\ UNCHANGED <<qvars, hvars, numThreads, threads_, task, joinIdx, executed, poolRet>>

\* The constructor has started num_threads workers; each is about to call Pop.
PoolInit(n) ==
    /\ numThreads = n
    /\ threads_ = [w \in 1..n |-> "pop"]
    /\ task = [w \in 1..n |-> nullopt]
    /\ executed = <<>>
    /\ poolRet = NoRet

InitPool ==
    /\ InitQ
    /\ NoClients
    /\ \E n \in 0..MaxThreads : PoolInit(n)
    /\ mainpc = "live"
    /\ joinIdx = 0
    /\ NoWG
    /\ NoWGThreads
    /\ NoGraph
    /\ NoMutex

WorkerStep(w) ==
    \/ WPop(w)
    \/ WRun(w)

NextPool ==
    \/ \E w \in Workers : WorkerStep(w) /\ UNCHANGED outsidePool
    \/ \E w \in Workers : WSpurious(w) /\ UNCHANGED outsidePool
    \/ PoolPush /\ UNCHANGED outsidePool
    \/ PoolStop /\ UNCHANGED outsidePool
    \/ PoolJoin /\ UNCHANGED outsidePool
    \/ PoolDestroyed /\ UNCHANGED outsidePool

SpecPool == InitPool /\ [][NextPool]_vars

\* The operating system schedules every runnable thread: a worker that can
\* take a step eventually does, and so does the thread running the destructor.
\* Nothing makes a spurious wake-up or a further Push happen.
FairPool ==
    /\ \A w \in 1..MaxThreads : WF_vars(w \in Workers /\ WorkerStep(w) /\ UNCHANGED outsidePool)
    /\ WF_vars(PoolJoin /\ UNCHANGED outsidePool)
    /\ WF_vars(PoolDestroyed /\ UNCHANGED outsidePool)

SpecPoolFair == InitPool /\ [][NextPool]_vars /\ FairPool

\* ------------------------------------------------ WaitGroup
SizeMod == 2 ^ SizeBits

\* The constructor WaitGroup(count).
WaitGroupInit(count) == [count_ |-> count % SizeMod, waiters_ |-> 0]

\* Add: count_ += count.
WaitGroupAdd(g, count) == [g EXCEPT !.count_ = (@ + count) % SizeMod]

\* Done: count_ -= 1, which wraps from 0.
WaitGroupDone(g) == [g EXCEPT !.count_ = (@ + SizeMod - 1) % SizeMod]

\* Done's condition for cv_.notify_all(), on the group after the decrement.
DoneNotifiesManyWaiters(g) == g.count_ = 0 /\ g.waiters_ > 1

DoneNotifies(g) == g.count_ = 0 /\ g.waiters_ > 0

\* The condition variable after Done.
DoneNotify(g, cv) == IF DoneNotifies(WaitGroupDone(g)) THEN NotifyAll(cv) ELSE cv

\* Wait's predicate.
WaitPredAtMostOne(g) == g.count_ <= 1

WaitPred(g) == g.count_ = 0

\* Wait's ++waiters_ and --waiters_.
WaitersInc(g) == [g EXCEPT !.waiters_ = @ + 1]
WaitersDec(g) == [g EXCEPT !.waiters_ = @ - 1]

\* ------------------------------------------------ SpecWG: client threads
WGThreads == 1..NumWGThreads

\* Thread t calls Add(count).
WGAdd(t, count) ==
    /\ wgpc[t] = "idle"
    /\ registered + count <= MaxDone
    /\ wg' = WaitGroupAdd(wg, count)
    /\ registered' = registered + count
    /\ UNCHANGED <<cv_, wgpc, dones, waitReturns>>

\* Thread t calls Done().
WGDone(t) ==
    /\ wgpc[t] = "idle"
    /\ dones < MaxDone
    /\ wg' = WaitGroupDone(wg)
    /\ cv_' = DoneNotify(wg, cv_)
    /\ dones' = dones + 1
    /\ UNCHANGED <<wgpc, registered, waitReturns>>

\* Thread t calls Wait(): ++waiters_, then the predicate; when it holds Wait
\* goes on to --waiters_ and returns, otherwise t blocks in cv_.wait.
WGWaitCall(t) ==
    /\ wgpc[t] = "idle"
    /\ IF WaitPred(WaitersInc(wg))
       THEN /\ wg' = WaitersDec(WaitersInc(wg))
            /\ waitReturns' = "at once"
            /\ UNCHANGED <<cv_, wgpc>>
       ELSE /\ wg' = WaitersInc(wg)
            /\ cv_' = cv_ \cup {t}
            /\ wgpc' = [wgpc EXCEPT ![t] = "wait"]
            /\ UNCHANGED waitReturns
    /\ UNCHANGED <<dones, registered>>

\* Thread t, out of cv_.wait, re-takes the lock and evaluates the predicate.
WGWaitWake(t) ==
    /\ wgpc[t] = "wait"
    /\ t \notin cv_
    /\ IF WaitPred(wg)
       THEN /\ wg' = WaitersDec(wg)
            /\ wgpc' = [wgpc EXCEPT ![t] = "idle"]
            /\ waitReturns' = "after blocking"
            /\ UNCHANGED cv_
       ELSE /\ cv_' = cv_ \cup {t}
            /\ UNCHANGED <<wg, wgpc, waitReturns>>
    /\ UNCHANGED <<dones, registered>>

\* A spurious wake-up of a thread blocked in cv_.wait.
WGSpurious(t) ==
    /\ t \in cv_
    /\ cv_' = cv_ \ {t}
    /\ UNCHANGED <<wg, wcvars>>

InitWG ==
    /\ \E count \in 0..MaxDone :
          /\ wg = WaitGroupInit(count)
          /\ registered = count
    /\ cv_ = {}
    /\ wgpc = [t \in WGThreads |-> "idle"]
    /\ dones = 0
    /\ waitReturns = "none"
    /\ InitQ
    /\ NoClients
    /\ NoPool
    /\ NoGraph
    /\ NoMutex

NextWG ==
    \E t \in WGThreads :
        \/ \E count \in 0..MaxDone : WGAdd(t, count) /\ UNCHANGED outsideWG
        \/ WGDone(t) /\ UNCHANGED outsideWG
        \/ WGWaitCall(t) /\ UNCHANGED outsideWG
        \/ WGWaitWake(t) /\ UNCHANGED outsideWG
        \/ WGSpurious(t) /\ UNCHANGED outsideWG

SpecWG == InitWG /\ [][NextWG]_vars

\* The callers of SpecWGFair keep the contract of the WaitGroup: Done is
\* called for units that were registered, never more often; every unit
\* registered is completed in the end; and the units outstanding are left to
\* a thread that is not itself waiting for them.
DoneIsDue == dones < registered
CanStillComplete(t) == DoneIsDue => \E u \in WGThreads \ {t} : wgpc[u] = "idle"

NextWGProper ==
    \E t \in WGThreads :
        \/ \E count \in 0..MaxDone : WGAdd(t, count) /\ UNCHANGED outsideWG
        \/ DoneIsDue /\ WGDone(t) /\ UNCHANGED outsideWG
        \/ CanStillComplete(t) /\ WGWaitCall(t) /\ UNCHANGED outsideWG
        \/ WGWaitWake(t) /\ UNCHANGED outsideWG
        \/ WGSpurious(t) /\ UNCHANGED outsideWG

\* A thread out of cv_.wait is scheduled and takes the lock again; a unit
\* that is due is completed.  Nothing makes a spurious wake-up or an Add
\* happen.
FairWG ==
    /\ \A t \in WGThreads : WF_vars(WGWaitWake(t) /\ UNCHANGED outsideWG)
    /\ WF_vars(\E t \in WGThreads : DoneIsDue /\ WGDone(t) /\ UNCHANGED outsideWG)

SpecWGFair == InitWG /\ [][NextWGProper]_vars /\ FairWG

\* ------------------------------------------------ Graph
vertexCount_ == NumVertices
Vertices == 0..(vertexCount_ - 1)

\* The constructor: vertexCount_ empty adjacency lists.
GraphInit == [v \in Vertices |-> <<>>]

\* addEdge(src, dest): out-of-range arguments and known edges change nothing.
addEdge(m, src, dest) ==
    IF src < 0 \/ dest < 0 \/ src >= vertexCount_ \/ dest >= vertexCount_ THEN m
    ELSE IF dest \in Range(m[src]) THEN m
    ELSE [m EXCEPT ![src] = Append(@, dest)]

RECURSIVE Graphs(_)
\* The graphs that at most n calls of addEdge build from the constructor's.
Graphs(n) ==
    IF n = 0 THEN {GraphInit}
    ELSE LET built == Graphs(n - 1)
         IN built \cup {addEdge(m, src, dest) : m \in built, src \in Vertices, dest \in Vertices}

RECURSIVE bfsScan(_, _, _, _, _)
\* bfs's inner loop over matrix_[u] from position k.
bfsScan(m, vis, q, u, k) ==
    IF k > Len(m[u]) THEN <<vis, q>>
    ELSE IF ~vis[m[u][k]]
         THEN bfsScan(m, [vis EXCEPT ![m[u][k]] = TRUE], Append(q, m[u][k]), u, k + 1)
         ELSE bfsScan(m, vis, q, u, k + 1)

RECURSIVE bfsLoop(_, _, _)
\* bfs's outer loop: the visited flags when the queue has run empty.
bfsLoop(m, vis, q) ==
    IF q = <<>> THEN vis
    ELSE bfsLoop(m, bfsScan(m, vis, Tail(q), Head(q), 1)[1],
                    bfsScan(m, vis, Tail(q), Head(q), 1)[2])

\* The sequential bfs(startVertex): its visited flags on return (none is set
\* when it returns at once).
bfs(m, start) ==
    IF start < 0 \/ start >= vertexCount_ THEN [v \in Vertices |-> FALSE]
    ELSE bfsLoop(m, [v \in Vertices |-> v = start], <<start>>)

\* ------------------------------------------------ Graph::parallelBFS
\* The id of the calling thread in cv_.
Driver == 0

\* parallelBFS's arguments: the last value below the range, the first value
\* in it, and the first value above it.  The graphs drawn are all the
\* labelled graphs of the bounds, so every shape of graph is traversed from
\* vertex 0 as it would be from any other vertex.
StartVertices == {-1, 0, vertexCount_}

\* chunkSize = (size + THREAD_COUNT - 1) / THREAD_COUNT.
ChunkSizeFloor(size, threadCount) ==
    IF size \div threadCount = 0 THEN 1 ELSE size \div threadCount

ChunkSize(size, threadCount) == (size + threadCount - 1) \div threadCount

\* The WaitGroup's count: 1 + (size - 1) / chunkSize.
ChunkCountOne(size, chunk) == 1

ChunkCount(size, chunk) == 1 + ((size - 1) \div chunk)

\* chunkEnd = min(chunkStart + chunkSize, size).
ChunkEndShort(from, chunk, size) ==
    IF from + chunk < size THEN from + chunk - 1 ELSE size - 1

ChunkEnd(from, chunk, size) ==
    IF from + chunk < size THEN from + chunk ELSE size

\* compare_exchange_strong(expected = false, true) on a flag: it succeeds,
\* and sets the flag, iff the flag is false.
CasSucceedsAlways(flag) == TRUE

CasSucceeds(flag) == flag = FALSE

RECURSIVE Skip(_, _, _)
\* The task's loops run on, without touching shared flags, to the next
\* neighbour to try; when the chunk is exhausted the task stands before its
\* merge, or before Done when it found nothing.
Skip(t, cur, m) ==
    IF t.i >= t.chunkEnd
    THEN [t EXCEPT !.pc = IF t.localNextLevel = <<>> THEN "done" ELSE "merge"]
    ELSE IF t.j >= Len(m[cur[t.i + 1]])
         THEN Skip([t EXCEPT !.i = @ + 1, !.j = 0], cur, m)
         ELSE t

\* The closure pushed for a chunk, with the locals its body starts from.
Closure(from, to, lvl) ==
    [chunkStart |-> from, chunkEnd |-> to, level |-> lvl,
     i |-> from, j |-> 0, localNextLevel |-> <<>>, pc |-> "scan"]

\* parallelBFS's range check: the call returns at once when it is true.
InvalidStartNegativeOnly(start) == start < 0

InvalidStart(start) == start < 0 \/ start >= vertexCount_

\* parallelBFS(start) up to its loop: the range check, the flags, the frontier.
ParallelBFSCall(start) ==
    /\ dpc = "call"
    /\ startVertex' = start
    /\ IF InvalidStart(start)
       THEN /\ dpc' = "done"
            /\ UNCHANGED <<visited, currentLevel>>
       ELSE /\ visited' = [v \in Vertices |-> v = start]
            /\ currentLevel' = <<start>>
            /\ dpc' = "loop"
    /\ UNCHANGED <<THREAD_COUNT, matrix_, nextLevel, chunkSize, chunkStart, level, casWins>>
    /\ UNCHANGED <<qvars, pvars, wvars>>

\* The loop's test and the head of its body: nextLevel, chunkSize, wg.  With
\* THREAD_COUNT = 0 the division is by zero and the call never returns.
LoopHead ==
    /\ dpc = "loop"
    /\ IF currentLevel = <<>>
       THEN /\ dpc' = "done"
            /\ UNCHANGED <<nextLevel, chunkSize, chunkStart, wvars>>
       ELSE IF THREAD_COUNT = 0
       THEN /\ dpc' = "crashed"
            /\ UNCHANGED <<nextLevel, chunkSize, chunkStart, wvars>>
       ELSE /\ nextLevel' = <<>>
            /\ chunkSize' = ChunkSize(Len(currentLevel), THREAD_COUNT)
            /\ wg' = WaitGroupInit(ChunkCount(Len(currentLevel),
                                              ChunkSize(Len(currentLevel), THREAD_COUNT)))
            /\ cv_' = {}
            /\ chunkStart' = 0
            /\ dpc' = "submit"
    /\ UNCHANGED <<THREAD_COUNT, matrix_, startVertex, visited, currentLevel, level, casWins>>
    /\ UNCHANGED <<qvars, pvars>>

\* One round of the submit loop: pool.Push of the chunk's closure.
Submit ==
    /\ dpc = "submit"
    /\ queue_' = Emplace(queue_, Closure(chunkStart,
                                         ChunkEnd(chunkStart, chunkSize, Len(currentLevel)),
                                         level))
    /\ waiter_' \in EmplaceNotify(queue_, waiter_)
    /\ chunkStart' = chunkStart + chunkSize
    /\ dpc' = IF chunkStart + chunkSize < Len(currentLevel) THEN "submit" ELSE "wait"
    /\ UNCHANGED <<THREAD_COUNT, matrix_, startVertex, visited, currentLevel, nextLevel,
                   chunkSize, level, casWins>>
    /\ UNCHANGED <<pvars, wvars>>

\* wg.Wait(): ++waiters_, then the predicate.
DriverWaitCall ==
    /\ dpc = "wait"
    /\ IF WaitPred(WaitersInc(wg))
       THEN /\ wg' = WaitersDec(WaitersInc(wg))
            /\ dpc' = "swap"
            /\ UNCHANGED cv_
       ELSE /\ wg' = WaitersInc(wg)
            /\ cv_' = cv_ \cup {Driver}
            /\ dpc' = "blocked"
    /\ UNCHANGED <<THREAD_COUNT, matrix_, startVertex, visited, currentLevel, nextLevel,
                   chunkSize, chunkStart, level, casWins>>
    /\ UNCHANGED <<qvars, pvars>>

\* The driver, out of cv_.wait, re-takes the lock and evaluates the predicate.
DriverWaitWake ==
    /\ dpc = "blocked"
    /\ Driver \notin cv_
    /\ IF WaitPred(wg)
       THEN /\ wg' = WaitersDec(wg)
            /\ dpc' = "swap"
            /\ UNCHANGED cv_
       ELSE /\ cv_' = cv_ \cup {Driver}
            /\ UNCHANGED <<wg, dpc>>
    /\ UNCHANGED <<THREAD_COUNT, matrix_, startVertex, visited, currentLevel, nextLevel,
                   chunkSize, chunkStart, level, casWins>>
    /\ UNCHANGED <<qvars, pvars>>

\* A spurious wake-up of the driver blocked in cv_.wait.
DriverSpurious ==
    /\ Driver \in cv_
    /\ cv_' = cv_ \ {Driver}
    /\ UNCHANGED <<wg, bvars, qvars, pvars>>

\* currentLevel = std::move(*nextLevel.Lock()), and the loop goes round.
Swap ==
    /\ dpc = "swap"
    /\ currentLevel' = nextLevel
    /\ nextLevel' = <<>>
    /\ level' = level + 1
    /\ dpc' = "loop"
    /\ UNCHANGED <<THREAD_COUNT, matrix_, startVertex, visited, chunkSize, chunkStart, casWins>>
    /\ UNCHANGED <<qvars, pvars, wvars>>

\* The closure worker w is running.
Running(w) == task[w][1]

\* Worker w starts the closure it popped: the loops run to the first flag.
TaskStart(w) ==
    /\ threads_[w] = "run"
    /\ Running(w).pc = "scan"
    /\ task' = [task EXCEPT ![w] = Some(Skip([Running(w) EXCEPT !.pc = "cas"],
                                             currentLevel, matrix_))]
    /\ UNCHANGED <<qvars, wvars, bvars, numThreads, threads_, mainpc, joinIdx, executed, poolRet>>

\* The neighbour the closure of worker w is about to try.
Neighbour(w) == matrix_[currentLevel[Running(w).i + 1]][Running(w).j + 1]

\* The compare-exchange on visited[v] for the next neighbour v, the push_back
\* when it succeeded, and the loops up to the next neighbour.
TaskCas(w) ==
    /\ threads_[w] = "run"
    /\ Running(w).pc = "cas"
    /\ LET v == Neighbour(w)
           won == CasSucceeds(visited[v])
       IN /\ visited' = [visited EXCEPT ![v] = TRUE]
          /\ casWins' = [casWins EXCEPT ![v] = IF won THEN @ + 1 ELSE @]
          /\ task' = [task EXCEPT ![w] = Some(Skip(
                        [Running(w) EXCEPT !.j = @ + 1,
                                           !.localNextLevel = IF won THEN Append(@, v) ELSE @],
                        currentLevel, matrix_))]
    /\ UNCHANGED <<THREAD_COUNT, matrix_, dpc, startVertex, currentLevel, nextLevel,
                   chunkSize, chunkStart, level>>
    /\ UNCHANGED <<qvars, wvars, numThreads, threads_, mainpc, joinIdx, executed, poolRet>>

\* nL->insert(nL->end(), localNextLevel.begin(), localNextLevel.end()).
MergeReplaces(nL, localNextLevel) == localNextLevel

Merge(nL, localNextLevel) == nL \o localNextLevel

\* The merge of a non-empty localNextLevel into nextLevel, under its lock.
TaskMerge(w) ==
    /\ threads_[w] = "run"
    /\ Running(w).pc = "merge"
    /\ nextLevel' = Merge(nextLevel, Running(w).localNextLevel)
    /\ task' = [task EXCEPT ![w] = Some([Running(w) EXCEPT !.pc = "done"])]
    /\ UNCHANGED <<THREAD_COUNT, matrix_, dpc, startVertex, visited, currentLevel,
                   chunkSize, chunkStart, level, casWins>>
    /\ UNCHANGED <<qvars, wvars, numThreads, threads_, mainpc, joinIdx, executed, poolRet>>

\* wg.Done(), the closure's last statement; the worker goes round its loop.
TaskDone(w) ==
    /\ threads_[w] = "run"
    /\ Running(w).pc = "done"
    /\ wg' = WaitGroupDone(wg)
    /\ cv_' = DoneNotify(wg, cv_)
    /\ task' = [task EXCEPT ![w] = nullopt]
    /\ threads_' = [threads_ EXCEPT ![w] = "pop"]
    /\ UNCHANGED <<qvars, bvars, numThreads, mainpc, joinIdx, executed, poolRet>>

\* The statics are initialised (THREAD_COUNT, then the pool of THREAD_COUNT
\* workers) and a graph of vertexCount_ vertices has been given its edges.
Init ==
    /\ InitQ
    /\ NoClients
    /\ NoWG
    /\ NoWGThreads
    /\ \E n \in 0..MaxThreads :
          /\ THREAD_COUNT = n
          /\ PoolInit(n)
    /\ mainpc = "live"
    /\ joinIdx = 0
    /\ matrix_ \in Graphs(MaxEdges)
    /\ dpc = "call"
    /\ startVertex = 0
    /\ visited = [v \in Vertices |-> FALSE]
    /\ currentLevel = <<>>
    /\ nextLevel = <<>>
    /\ chunkSize = 0
    /\ chunkStart = 0
    /\ level = 0
    /\ casWins = [v \in Vertices |-> 0]
    /\ NoMutex

DriverStep ==
    \/ \E start \in StartVertices : ParallelBFSCall(start)
    \/ LoopHead
    \/ Submit
    \/ DriverWaitCall
    \/ DriverWaitWake
    \/ Swap

PoolWorkerStep(w) ==
    \/ WPop(w) /\ UNCHANGED <<wvars, bvars>>
    \/ TaskStart(w)
    \/ TaskCas(w)
    \/ TaskMerge(w)
    \/ TaskDone(w)

Next ==
    \/ DriverStep /\ UNCHANGED outsideBFS
    \/ DriverSpurious /\ UNCHANGED outsideBFS
    \/ \E w \in Workers : PoolWorkerStep(w) /\ UNCHANGED outsideBFS
    \/ \E w \in Workers : WSpurious(w) /\ UNCHANGED <<wvars, bvars, outsideBFS>>

Spec == Init /\ [][Next]_vars

\* One iteration of parallelBFS's loop up to wg.Wait(), for a frontier of any
\* length up to MaxFrontier and any worker count from 1 to MaxWorkers.  The
\* pool is given no worker, so the closures pushed stay in its queue.
InitChunks ==
    /\ InitQ
    /\ NoClients
    /\ NoWG
    /\ NoWGThreads
    /\ NoMutex
    /\ PoolInit(0)
    /\ mainpc = "live"
    /\ joinIdx = 0
    /\ THREAD_COUNT \in 1..MaxWorkers
    /\ matrix_ = GraphInit
    /\ dpc = "loop"
    /\ startVertex = 0
    /\ visited = [v \in Vertices |-> FALSE]
    /\ \E size \in 1..MaxFrontier : currentLevel = [i \in 1..size |-> 0]
    /\ nextLevel = <<>>
    /\ chunkSize = 0
    /\ chunkStart = 0
    /\ level = 0
    /\ casWins = [v \in Vertices |-> 0]

NextChunks ==
    \/ LoopHead /\ UNCHANGED outsideBFS
    \/ Submit /\ UNCHANGED outsideBFS

SpecChunks == InitChunks /\ [][NextChunks]_vars

\* The operating system schedules every runnable thread: the thread calling
\* parallelBFS and each worker take the steps they can take.  Nothing makes
\* a spurious wake-up happen.
FairBFS ==
    /\ WF_vars(DriverStep /\ UNCHANGED outsideBFS)
    /\ \A w \in 1..MaxThreads :
          WF_vars(w \in Workers /\ PoolWorkerStep(w) /\ UNCHANGED outsideBFS)

SpecFair == Init /\ [][Next]_vars /\ FairBFS

\* ------------------------------------------------ Mutex<T> and Mutex::Guard
MutexThreads == 1..NumMutexThreads
Slots == 1..NumGuards

\* A Guard object.  value_ is its pointer (TRUE: &value_ of the Mutex, FALSE:
\* nullptr) and lock_ tells whether its std::unique_lock owns mutex_; live
\* tells whether the object stands constructed in its slot.
NoGuard == [live |-> FALSE, value_ |-> FALSE, lock_ |-> FALSE]

\* Guard(&value_, std::unique_lock(mutex_)), the guard Lock() returns.
Guard == [live |-> TRUE, value_ |-> TRUE, lock_ |-> TRUE]

\* What a move leaves in its source: guard.value_ = nullptr, and a
\* std::unique_lock that owns nothing.
MovedFromKeepsPointer(g) == [g EXCEPT !.lock_ = FALSE]

MovedFrom(g) == [g EXCEPT !.value_ = FALSE, !.lock_ = FALSE]

\* Guard(Guard &&guard): the guard constructed.
GuardMove(g) == [live |-> TRUE, value_ |-> g.value_, lock_ |-> g.lock_]

\* operator=(Guard &&guard) on the slots gs of one thread: nothing on
\* self-assignment; otherwise the target takes the source's pointer and lock.
GuardAssign(gs, to, from) ==
    IF to = from THEN gs
    ELSE [gs EXCEPT ![to] = GuardMove(gs[from]), ![from] = MovedFrom(gs[from])]

\* mutex_ after that assignment: std::unique_lock's move assignment unlocks
\* the mutex its target owned.
GuardAssignUnlocks(gs, to, from) == to # from /\ gs[to].lock_

\* Thread t calls Lock() to construct the guard of slot g, and stands in
\* std::unique_lock's constructor.  No client locks a std::mutex it owns.
MLockCall(t, g) ==
    /\ mtpc[t].pc = "idle"
    /\ ~guards[t][g].live
    /\ \A h \in Slots : ~guards[t][h].lock_
    /\ mtpc' = [mtpc EXCEPT ![t] = [pc |-> "lock", g |-> g]]
    /\ UNCHANGED <<mutex_, value_, guards, mcv>>

\* mutex_.lock() returns when no thread owns the mutex; Lock() returns.
MLockAcquire(t) ==
    /\ mtpc[t].pc = "lock"
    /\ mutex_ = 0
    /\ mutex_' = t
    /\ guards' = [guards EXCEPT ![t][mtpc[t].g] = Guard]
    /\ mtpc' = [mtpc EXCEPT ![t] = [pc |-> "idle", g |-> 0]]
    /\ UNCHANGED <<value_, mcv>>

\* Thread t move-constructs the guard of slot to from that of slot from.
MMoveConstruct(t, to, from) ==
    /\ mtpc[t].pc = "idle"
    /\ guards[t][from].live
    /\ ~guards[t][to].live
    /\ guards' = [guards EXCEPT ![t][to] = GuardMove(guards[t][from]),
                                ![t][from] = MovedFrom(guards[t][from])]
    /\ UNCHANGED <<mutex_, value_, mtpc, mcv>>

\* Thread t move-assigns the guard of slot from to that of slot to.
MMoveAssign(t, to, from) ==
    /\ mtpc[t].pc = "idle"
    /\ guards[t][from].live
    /\ guards[t][to].live
    /\ guards' = [guards EXCEPT ![t] = GuardAssign(guards[t], to, from)]
    /\ mutex_' = IF GuardAssignUnlocks(guards[t], to, from) THEN 0 ELSE mutex_
    /\ UNCHANGED <<value_, mtpc, mcv>>

\* Thread t writes the protected value through the guard of slot g
\* (operator* or operator->); no client dereferences a guard holding nullptr.
MAccess(t, g) ==
    /\ mtpc[t].pc = "idle"
    /\ guards[t][g].live
    /\ guards[t][g].value_
    /\ value_' = t
    /\ UNCHANGED <<mutex_, guards, mtpc, mcv>>

\* Thread t calls mcv.wait(guard.AsLock()) with the guard of slot g, whose
\* lock it owns: the mutex is unlocked and t blocks.
MWaitBlock(t, g) ==
    /\ mtpc[t].pc = "idle"
    /\ guards[t][g].live
    /\ guards[t][g].lock_
    /\ mutex_' = 0
    /\ guards' = [guards EXCEPT ![t][g].lock_ = FALSE]
    /\ mcv' = mcv \cup {t}
    /\ mtpc' = [mtpc EXCEPT ![t] = [pc |-> "wait", g |-> g]]
    /\ UNCHANGED value_

\* Thread t calls mcv.notify_all().
MNotifyAll(t) ==
    /\ mtpc[t].pc = "idle"
    /\ mcv' = NotifyAll(mcv)
    /\ UNCHANGED <<mutex_, value_, guards, mtpc>>

\* A spurious wake-up of a thread blocked in mcv.wait.
MSpurious(t) ==
    /\ t \in mcv
    /\ mcv' = mcv \ {t}
    /\ UNCHANGED <<mutex_, value_, guards, mtpc>>

\* Thread t, out of the wait, locks the mutex again and wait returns.
MWaitReturn(t) ==
    /\ mtpc[t].pc = "wait"
    /\ t \notin mcv
    /\ mutex_ = 0
    /\ mutex_' = t
    /\ guards' = [guards EXCEPT ![t][mtpc[t].g].lock_ = TRUE]
    /\ mtpc' = [mtpc EXCEPT ![t] = [pc |-> "idle", g |-> 0]]
    /\ UNCHANGED <<value_, mcv>>

\* The scope of the guard of slot g ends: ~Guard destroys lock_, which
\* unlocks the mutex when it owns it.
MDestroy(t, g) ==
    /\ mtpc[t].pc = "idle"
    /\ guards[t][g].live
    /\ guards' = [guards EXCEPT ![t][g] = NoGuard]
    /\ mutex_' = IF guards[t][g].lock_ THEN 0 ELSE mutex_
    /\ UNCHANGED <<value_, mtpc, mcv>>

InitMutex ==
    /\ mutex_ = 0
    /\ value_ = 0
    /\ guards = [t \in MutexThreads |-> [g \in Slots |-> NoGuard]]
    /\ mtpc = [t \in MutexThreads |-> [pc |-> "idle", g |-> 0]]
    /\ mcv = {}
    /\ InitQ
    /\ NoClients
    /\ NoPool
    /\ NoWG
    /\ NoWGThreads
    /\ NoGraph

NextMutex ==
    \E t \in MutexThreads :
        \/ \E g \in Slots : MLockCall(t, g) /\ UNCHANGED outsideMutex
        \/ MLockAcquire(t) /\ UNCHANGED outsideMutex
        \/ \E to, from \in Slots : MMoveConstruct(t, to, from) /\ UNCHANGED outsideMutex
        \/ \E to, from \in Slots : MMoveAssign(t, to, from) /\ UNCHANGED outsideMutex
        \/ \E g \in Slots : MAccess(t, g) /\ UNCHANGED outsideMutex
        \/ \E g \in Slots : MWaitBlock(t, g) /\ UNCHANGED outsideMutex
        \/ MNotifyAll(t) /\ UNCHANGED outsideMutex
        \/ MSpurious(t) /\ UNCHANGED outsideMutex
        \/ MWaitReturn(t) /\ UNCHANGED outsideMutex
        \/ \E g \in Slots : MDestroy(t, g) /\ UNCHANGED outsideMutex

SpecMutex == InitMutex /\ [][NextMutex]_vars

\* ================================================================ claims

\* ---------------------------------------------------------------- C1
\* C1: when parallelBFS has returned, the flags that are set are those the
\* sequential bfs sets from the same start vertex.
C1_VisitedIsBfs == dpc = "done" => visited = bfs(matrix_, startVertex)

\* Two neighbours of the start vertex share a neighbour that is none of them.
Diamond(a, b, c) ==
    /\ Cardinality({startVertex, a, b, c}) = 4
    /\ {a, b} \subseteq Range(matrix_[startVertex])
    /\ c \in Range(matrix_[a]) \cap Range(matrix_[b])

\* A traversal by two workers has returned after three levels with four
\* vertices visited, on a graph where two frontier vertices share a successor.
C1_Witness ==
    /\ dpc = "done"
    /\ THREAD_COUNT = 2
    /\ level = 3
    /\ Cardinality({v \in Vertices : visited[v]}) = 4
    /\ \E a, b, c \in Vertices : Diamond(a, b, c)

\* ---------------------------------------------------------------- C2
\* The closures in progress.
RunningWorkers == {w \in Workers : threads_[w] = "run"}

\* Those whose candidate list has not been copied into nextLevel.
Unmerged == {w \in RunningWorkers : Running(w).pc # "done"}

\* How often v occurs in s.
Count(s, v) == Cardinality({k \in DOMAIN s : s[k] = v})

RECURSIVE CountLocal(_, _)
\* How often v occurs in the localNextLevel of the closures run by ws.
CountLocal(ws, v) ==
    IF ws = {} THEN 0
    ELSE LET w == CHOOSE x \in ws : TRUE
         IN Count(Running(w).localNextLevel, v) + CountLocal(ws \ {w}, v)

\* C2: a flag that is set stays set; for each vertex at most one
\* compare-exchange succeeds, and the vertex stands at most once in the
\* candidate lists not yet merged and the next frontier taken together.
C2_VisitedOnce ==
    /\ [][dpc # "call" => \A v \in Vertices : visited[v] => visited'[v]]_vars
    /\ [](\A v \in Vertices :
             /\ casWins[v] <= 1
             /\ CountLocal(Unmerged, v) + Count(nextLevel, v) <= 1)

\* Two closures of one level met at a vertex: one holds it in its candidate
\* list, the other has tried the same vertex and stands before Done with
\* nothing found.
C2_Witness ==
    \E w1, w2 \in RunningWorkers, c \in Vertices :
        /\ w1 # w2
        /\ c # startVertex
        /\ casWins[c] = 1
        /\ c \in Range(Running(w1).localNextLevel)
        /\ Running(w2).pc = "done"
        /\ Running(w2).localNextLevel = <<>>
        /\ c \in Range(matrix_[currentLevel[Running(w2).chunkStart + 1]])

\* ---------------------------------------------------------------- C3
\* The closures pushed and not yet popped, and those in progress.
LiveTasks == Range(queue_.second) \cup {Running(w) : w \in RunningWorkers}

\* C3: when the driver's Wait has returned no closure is pending or in
\* progress; a closure that is pending or in progress belongs to the level
\* the driver is submitting or waiting for.
C3_LevelBarrier ==
    /\ dpc = "swap" => (LiveTasks = {} /\ wg.count_ = 0)
    /\ \A t \in LiveTasks : t.level = level /\ dpc \in {"submit", "wait", "blocked"}

\* Wait has returned for a level of two chunks whose closures found the next
\* frontier.
C3_Witness ==
    /\ dpc = "swap"
    /\ THREAD_COUNT = 2
    /\ Len(currentLevel) = 2
    /\ nextLevel # <<>>
    /\ wg.waiters_ = 0

\* ---------------------------------------------------------------- C4
\* A Wait of thread t returns in this step.
WaitReturns(t) ==
    \/ WGWaitCall(t) /\ wgpc'[t] = "idle"
    \/ WGWaitWake(t) /\ wgpc'[t] = "idle"

\* C4: Wait returns only in a state where count_ is 0 and the completed Done
\* calls are as many as the initial count plus the Add arguments.
C4_WaitReturnsAtZero ==
    [][\A t \in WGThreads : WaitReturns(t) => (wg.count_ = 0 /\ dones = registered)]_vars

\* A Wait that had blocked on a positive count has returned after two or
\* more Done calls.
C4_Witness ==
    /\ waitReturns = "after blocking"
    /\ dones >= 2
    /\ dones = registered

\* ---------------------------------------------------------------- C5
\* A Pop of client c completes in this step (called, or resumed after a wait).
PopCompletes(c) == (QPopCall(c) \/ QPopWake(c)) /\ cpc'[c] = "idle"

\* While the state is STOPPED nobody is blocked in Pop, and what was in the
\* queue at the Stop call is what has been popped since, followed by what is
\* still queued: nothing is lost and nothing is re-ordered.
StoppedKeepsItems ==
    queue_.first = "STOPPED" =>
        /\ waiter_ = {}
        /\ \E k \in 0..Len(stopItems) :
              /\ k <= Len(popped)
              /\ SubSeq(popped, Len(popped) - k + 1, Len(popped)) \o queue_.second = stopItems

\* A Pop that runs while the state is STOPPED does not block; it returns the
\* head of the queue and removes it, and returns nullopt only from an empty
\* queue.  No other step changes the queue's contents in that state.
StoppedPopStep ==
    queue_.first = "STOPPED" =>
        /\ \A c \in Clients :
              (QPopCall(c) \/ QPopWake(c)) =>
                  /\ cpc'[c] = "idle"
                  /\ queue_.second # <<>> =>
                        /\ ret'[c] = PopRet(Some(Head(queue_.second)))
                        /\ queue_' = [queue_ EXCEPT !.second = Tail(@)]
                  /\ queue_.second = <<>> =>
                        /\ ret'[c] = PopRet(nullopt)
                        /\ queue_' = queue_
        /\ (\A c \in Clients : ~PopCompletes(c)) => queue_'.second = queue_.second

\* C5: after Stop(STOPPED) the items already enqueued remain poppable, in
\* order, until the queue is drained; only then does Pop return nullopt, and
\* it does so without blocking.
C5_StoppedDrains == [][StoppedPopStep]_vars /\ []StoppedKeepsItems

\* Two items were queued at Stop(STOPPED); both have been popped since, and a
\* further Pop returned nullopt from the drained queue.
C5_Witness ==
    /\ queue_.first = "STOPPED"
    /\ Len(stopItems) = 2
    /\ queue_.second = <<>>
    /\ SubSeq(popped, Len(popped) - 1, Len(popped)) = stopItems
    /\ \E c \in Clients : ret[c] = PopRet(nullopt)

\* ---------------------------------------------------------------- C6
\* C6: once Stop(FORCE_STOPPED) has been called, whatever Push and Stop calls
\* follow, no Pop blocks and no Pop delivers an item.
C6_ForceStopIsFinal == [][forceCalled => (popped' = popped /\ waiter_' = {})]_vars

\* ---------------------------------------------------------------- C7
\* A Push step: it returns true and enqueues iff the state is RUNNING; after
\* any Stop call it returns false and leaves the queue as it was.
PushGatedStep ==
    \A c \in Clients :
        QPush(c) =>
            /\ ret'[c] = PushRet(queue_.first = "RUNNING")
            /\ ret'[c] = PushRet(TRUE) => queue_'.second = Append(queue_.second, nextVal)
            /\ stopCalled => (ret'[c] = PushRet(FALSE) /\ queue_' = queue_)

\* C7: Push returns true and enqueues iff the state is RUNNING; a Push after
\* any Stop call returns false, changes nothing, and its value is never
\* returned by a Pop.
C7_PushAfterStopRefused ==
    [][PushGatedStep]_vars /\ [](rejected \cap Range(popped) = {})

\* ---------------------------------------------------------------- C8
\* C8: the state only moves RUNNING -> STOPPED or RUNNING -> FORCE_STOPPED;
\* a state that is not RUNNING never changes again.
C8_StateOneWay == [][queue_.first # "RUNNING" => queue_'.first = queue_.first]_vars

\* ---------------------------------------------------------------- C9
\* C9: when the destructor has returned every worker has left its loop, and
\* a destructor that has signalled the stop does return.
C9_ShutdownJoinsAll ==
    /\ [](mainpc = "destroyed" => \A w \in Workers : threads_[w] = "exit")
    /\ ((mainpc = "join") ~> (mainpc = "destroyed"))

\* The destructor of a pool of at least two workers has returned after the
\* workers ran tasks.
C9_Witness ==
    /\ mainpc = "destroyed"
    /\ numThreads >= 2
    /\ Len(executed) >= 2
    /\ \A w \in Workers : threads_[w] = "exit"

\* ---------------------------------------------------------------- C10
\* C10: when the destructor has returned, every task whose Push succeeded has
\* been executed.
C10_ShutdownDrains == mainpc = "destroyed" => Range(accepted) \subseteq Range(executed)

\* The same with at least one worker in the pool.
ShutdownDrainsWithWorkers == numThreads >= 1 => C10_ShutdownDrains

\* ---------------------------------------------------------------- C11
\* C11: the pool has at least one worker whatever count it was configured
\* with, and the traversal's chunk-size computation never divides by a
\* worker count of 0.
C11_AtLeastOneWorker == Cardinality(Workers) >= 1 /\ dpc # "crashed"

\* ---------------------------------------------------------------- C12
\* The guards that point at the protected value, and those that own the lock.
LiveGuards ==
    {tg \in MutexThreads \X Slots : guards[tg[1]][tg[2]].live /\ guards[tg[1]][tg[2]].value_}
HoldingGuards == {tg \in MutexThreads \X Slots : guards[tg[1]][tg[2]].lock_}

\* An access through a guard is made by a thread that owns the mutex.
AccessUnderLock == \A t \in MutexThreads, g \in Slots : MAccess(t, g) => mutex_ = t

\* Lock() returns only when no guard owns the lock.
LockWaitsForRelease == \A t \in MutexThreads : MLockAcquire(t) => HoldingGuards = {}

\* The end of the scope of the guard that owns the lock unlocks the mutex.
ScopeEndReleases ==
    \A t \in MutexThreads, g \in Slots :
        (MDestroy(t, g) /\ guards[t][g].lock_) => mutex_' = 0

\* The mutex is unlocked only by the end of the scope of the owning guard.
ReleasedOnlyAtScopeEnd ==
    \A t \in MutexThreads :
        (mutex_ = t /\ mutex_' # t) => \E g \in Slots : MDestroy(t, g) /\ guards[t][g].lock_

\* The mutex is unlocked only by the end of the scope of the owning guard, by
\* a condition-variable wait on its AsLock(), or by a move-assignment that
\* overwrites it.
ReleasedByGuard ==
    \A t \in MutexThreads :
        (mutex_ = t /\ mutex_' # t) =>
            \E g \in Slots :
                /\ guards[t][g].lock_
                /\ \/ MDestroy(t, g)
                   \/ MWaitBlock(t, g)
                   \/ \E from \in Slots : MMoveAssign(t, g, from)

\* C12 as stated: at most one guard pointing at the protected value exists at
\* a time, Lock() returns only when no guard owns the lock, every access is
\* made under the lock, and the lock is released exactly at the end of the
\* owning guard's scope.
C12_OneLiveGuard ==
    /\ [](Cardinality(LiveGuards) <= 1)
    /\ [][LockWaitsForRelease /\ AccessUnderLock]_vars
    /\ [][ScopeEndReleases /\ ReleasedOnlyAtScopeEnd]_vars

\* C12, amended: at most one guard owns the lock at a time, and the mutex is
\* owned by the thread of that guard; Lock() returns only when no guard owns
\* the lock; every access is made under the lock; the end of the owning
\* guard's scope releases the lock, and before that only a condition-variable
\* wait on the guard's lock or a move-assignment over the guard does.
C12_GuardsExclusive ==
    /\ [](/\ Cardinality(HoldingGuards) <= 1
          /\ \A t \in MutexThreads : mutex_ = t <=> \E g \in Slots : guards[t][g].lock_)
    /\ [][LockWaitsForRelease /\ AccessUnderLock]_vars
    /\ [][ScopeEndReleases /\ ReleasedByGuard]_vars

\* A thread has written the value through a moved-to guard that owns the
\* lock, while another thread stands blocked in Lock().
C12_Witness ==
    \E t, u \in MutexThreads :
        /\ t # u
        /\ guards[t][1].live /\ ~guards[t][1].value_
        /\ guards[t][2].lock_
        /\ value_ = t
        /\ mtpc[u].pc = "lock"

\* ---------------------------------------------------------------- C13
\* The tasks held by the pool: queued, or popped by a worker.
PoolHolds == Range(queue_.second) \cup UNION {Range(task[w]) : w \in Workers}

\* A ThreadPool::Push step gives its caller false when the queue is stopped,
\* and then queues nothing; it gives true when the task was queued.
PoolPushSignalsDrop ==
    PoolPush =>
        IF queue_.first # "RUNNING"
        THEN queue_' = queue_ /\ poolRet' = PushRet(FALSE)
        ELSE poolRet' = PushRet(TRUE)

\* C13: a task pushed to a pool whose queue has been stopped is neither
\* queued nor executed, and the caller of ThreadPool::Push receives false,
\* where a successful submission gives it true.
C13_DroppedPushSignalled ==
    /\ [][PoolPushSignalsDrop]_vars
    /\ [](rejected \cap (PoolHolds \cup Range(executed)) = {})

\* The part of C13 about the task alone: it is neither queued nor executed.
DroppedPushNotRun ==
    /\ [][PoolPush /\ queue_.first # "RUNNING" => queue_' = queue_]_vars
    /\ [](rejected \cap (PoolHolds \cup Range(executed)) = {})

\* ---------------------------------------------------------------- C14
\* The workers that hold task v, popped and not yet run to its end.
HeldBy(v) == {w \in Workers : task[w] = Some(v)}

\* Task v is in exactly one place: queued once, or held by one worker, or
\* executed once.
InOnePlace(v) == Count(queue_.second, v) + Cardinality(HeldBy(v)) + Count(executed, v) = 1

\* Every accepted task is in exactly one place, so no task is returned by two
\* Pops or executed twice, and only accepted tasks are executed.
ExecutedAtMostOnce ==
    /\ \A v \in Range(accepted) : InOnePlace(v)
    /\ Range(executed) \subseteq Range(accepted)

\* C14: every task whose Push succeeded is returned by exactly one worker's
\* Pop and executed exactly once; with no forced stop it is eventually
\* executed, whatever the number of workers.
C14_ExecutedExactlyOnce ==
    /\ []ExecutedAtMostOnce
    /\ \A v \in 1..MaxPush : (v \in Range(accepted)) ~> (v \in Range(executed))

\* The same for a pool of at least one worker.
ExecutedExactlyOnceWithWorkers ==
    /\ []ExecutedAtMostOnce
    /\ \A v \in 1..MaxPush :
          (numThreads >= 1 /\ v \in Range(accepted)) ~> (v \in Range(executed))

\* ---------------------------------------------------------------- C15
\* p is a prefix of s.
IsPrefix(p, s) == Len(p) <= Len(s) /\ SubSeq(s, 1, Len(p)) = p

\* C15: the values returned by Pop, in the order the Pops took the queue's
\* lock, are a prefix of the values accepted by Push, in the order the Pushes
\* took it.
C15_Fifo == IsPrefix(popped, accepted)

\* Three values were pushed and popped, the last two by different clients.
C15_Witness ==
    /\ Len(popped) = 3
    /\ popped = accepted
    /\ \E c, d \in Clients :
          /\ c # d
          /\ ret[c] = PopRet(Some(popped[3]))
          /\ ret[d] = PopRet(Some(popped[2]))

\* ---------------------------------------------------------------- C16
\* No deadlock: while the driver is in Wait on a positive count, as many
\* closures are pending or in progress as the count says; and while a closure
\* is pending, some worker is not blocked in the queue's wait.
NoDeadlock ==
    /\ dpc \in {"wait", "blocked"} =>
          wg.count_ = Len(queue_.second) + Cardinality(RunningWorkers)
    /\ queue_.second # <<>> => \E w \in Workers : w \notin waiter_
    /\ (dpc = "blocked" /\ wg.count_ = 0) => Driver \notin cv_

\* C16: a parallelBFS call that has passed its range check returns, under
\* fair scheduling of the driver and of the workers, and never deadlocks.
C16_RunsToCompletion ==
    /\ []NoDeadlock
    /\ (dpc = "loop") ~> (dpc = "done")

\* The same with a worker count of at least one.
RunsToCompletionWithWorkers ==
    /\ [](THREAD_COUNT >= 1 => NoDeadlock)
    /\ (dpc = "loop" /\ THREAD_COUNT >= 1) ~> (dpc = "done")

\* ---------------------------------------------------------------- C17
\* C17: a parallelBFS call with a start vertex below 0 or not below
\* vertexCount_ has returned at its first step: no flag is set, no closure
\* has been pushed to the pool or popped by a worker, and no WaitGroup has
\* been counted on or waited on.
C17_InvalidStartNoOp ==
    (dpc # "call" /\ (startVertex < 0 \/ startVertex >= vertexCount_)) =>
        /\ dpc = "done"
        /\ \A v \in Vertices : ~visited[v]
        /\ currentLevel = <<>> /\ level = 0
        /\ queue_.second = <<>>
        /\ \A w \in Workers : task[w] = nullopt /\ threads_[w] = "pop"
        /\ wg = [count_ |-> 0, waiters_ |-> 0] /\ cv_ = {}

\* parallelBFS(vertexCount_) has returned, on a graph with edges and a pool
\* of two workers.
C17_Witness ==
    /\ dpc = "done"
    /\ startVertex = vertexCount_
    /\ THREAD_COUNT = 2
    /\ matrix_[0] # <<>>

\* ---------------------------------------------------------------- C18
\* The Done call that takes the counter to 0 takes every blocked thread out
\* of the wait.
DoneWakesAll == \A t \in WGThreads : (WGDone(t) /\ wg'.count_ = 0) => cv_' = {}

\* A Wait called while the counter is 0 returns in the same critical section.
WaitAtZeroReturns ==
    \A t \in WGThreads :
        (WGWaitCall(t) /\ wg.count_ = 0) => (wgpc'[t] = "idle" /\ cv_' = cv_ /\ wg' = wg)

\* C18: when the counter reaches 0 every thread blocked in Wait is woken, so
\* none sleeps while the counter is 0, and each of them eventually returns;
\* a Wait called when the counter is 0 returns without blocking.
C18_NoLostWakeup ==
    /\ [][DoneWakesAll /\ WaitAtZeroReturns]_vars
    /\ [](wg.count_ = 0 => cv_ = {})
    /\ \A t \in WGThreads : (wgpc[t] = "wait" /\ wg.count_ = 0) ~> (wgpc[t] = "idle")

\* A Done call has taken the counter to 0 while two threads were blocked in
\* Wait: both are out of the wait and have not yet returned.
C18_Witness ==
    /\ wg.count_ = 0
    /\ wg.waiters_ = 2
    /\ dones >= 1
    /\ Cardinality({t \in WGThreads : wgpc[t] = "wait" /\ t \notin cv_}) = 2

\* ---------------------------------------------------------------- C19
\* The closures pushed for the level (SpecChunks leaves them in the queue).
Pushed == queue_.second

\* C19: when the submit loop has ended, for a frontier of length L >= 1 and a
\* worker count W >= 1: chunkSize is ceil(L / W); the chunks pushed are not
\* empty, none is longer than chunkSize, the first starts at 0, each starts
\* where the one before ends, and the last ends at L; there are at most W of
\* them, and as many as the WaitGroup's count 1 + (L - 1) / chunkSize.
C19_ChunksPartition ==
    dpc = "wait" =>
        LET L == Len(currentLevel)
            W == THREAD_COUNT
            n == Len(Pushed)
        IN /\ chunkSize * W >= L /\ (chunkSize - 1) * W < L
           /\ n >= 1 /\ n <= W
           /\ Pushed[1].chunkStart = 0
           /\ Pushed[n].chunkEnd = L
           /\ \A k \in 1..n :
                 /\ Pushed[k].chunkStart < Pushed[k].chunkEnd
                 /\ Pushed[k].chunkEnd - Pushed[k].chunkStart <= chunkSize
           /\ \A k \in 1..(n - 1) : Pushed[k].chunkEnd = Pushed[k + 1].chunkStart
           /\ n = 1 + ((L - 1) \div chunkSize)
           /\ wg.count_ = n

\* A frontier of 7 vertices for 3 workers has been cut into three chunks, the
\* last of them of one vertex.
C19_Witness ==
    /\ dpc = "wait"
    /\ Len(currentLevel) = 7
    /\ THREAD_COUNT = 3
    /\ Len(Pushed) = 3
    /\ Pushed[3].chunkStart = 6
    /\ Pushed[3].chunkEnd = 7

\* ---------------------------------------------------------------- C20
RECURSIVE Within(_, _, _)
\* The vertices at shortest-path distance at most k from start in graph m.
Within(m, start, k) ==
    IF k = 0 THEN {start}
    ELSE LET near == Within(m, start, k - 1)
         IN near \cup UNION {Range(m[u]) : u \in near}

\* The vertices at shortest-path distance exactly k from start.
AtDistance(m, start, k) ==
    IF k = 0 THEN {start} ELSE Within(m, start, k) \ Within(m, start, k - 1)

\* C20: at the start of loop iteration k the frontier holds exactly the
\* vertices at shortest-path distance k from the start vertex, each once.
C20_FrontierIsLevel ==
    dpc = "loop" =>
        /\ Range(currentLevel) = AtDistance(matrix_, startVertex, level)
        /\ Cardinality(Range(currentLevel)) = Len(currentLevel)

\* The third iteration starts on a frontier of two vertices, which the
\* closures of two chunks found and merged.
C20_Witness ==
    /\ dpc = "loop"
    /\ level = 2
    /\ THREAD_COUNT = 2
    /\ Len(currentLevel) = 2
    /\ \E a, b \in Vertices :
          /\ a # b
          /\ {a, b} = Range(matrix_[startVertex])
          /\ currentLevel[1] \in Range(matrix_[b]) \ Range(matrix_[a])
          /\ currentLevel[2] \in Range(matrix_[a]) \ Range(matrix_[b])
          /\ matrix_[startVertex] = <<a, b>>

====
